---- MODULE Spec2Model ----
(***************************************************************************)
(* Model of the llm-gateway response dispatcher:                           *)
(*   services/lru_cache.py        LRUCache                                 *)
(*   services/llm_router.py       LLMRouter                                *)
(*   services/detection_buffer.py DetectionBufferService                   *)
(*   main.py                      the /buffer/* endpoints                  *)
(* Confidences are integers in percent; a mean is kept as the exact        *)
(* fraction num/den.  A Python None text is the value None, a Python None  *)
(* dict is NoneDict.                                                       *)
(***************************************************************************)
EXTENDS Integers, Sequences, FiniteSets, TLC

\* ------------------------------------------------------------------ bounds
MaxBufferSize == 3
MaxCapacity == 2
MaxDetections == 4
MaxWindows == 3
MaxRequests == 3
MaxDispatches == 6
MaxRoomyDetections == 6
MaxPending == 2
MaxLoopDetections == 4
MaxHalfPercent == 210
HalfPercentsBelowZero == 10

\* ------------------------------------------------------------------ values
None == "<None>"
NoneDict == [none |-> TRUE]

\* Python truthiness of an Optional[str]: None and the empty string are falsy.
Truthy(text) == text /= None /\ text /= ""

\* Bucket boundaries of lru_cache.py / detection_buffer.py, in percent.
BoundExcellent == 90
BoundGood == 75
BoundModerate == 60
BoundAcceptable == 45
BoundThreshold == 40

Buckets == {"excellent", "good", "moderate", "acceptable", "threshold", "rejected"}

\* A float confidence value as an exact fraction of percents.
Conf(n, d) == [num |-> n, den |-> d]
AtLeast(c, bound) == c.num >= bound * c.den

\* Confidence values the detections of the model carry (percent).
Confidences == {40, 100}
\* Confidence values passed to the cache when it is driven directly.
CacheConfidences == {30, 42, 65, 95}
\* What a backend call can yield: a failure, an empty text, a text.
OutcomeKinds == {"fail", "empty", "text"}
Texts == {"", "cached text"}
Prompts == {"prompt"}

RECURSIVE SumSeq(_)
SumSeq(s) == IF s = <<>> THEN 0 ELSE Head(s) + SumSeq(Tail(s))

\* Index of the first element of s satisfying bucket = b, 0 when none.
RECURSIVE IndexOf(_, _)
IndexOf(s, b) ==
  IF s = <<>> THEN 0
  ELSE IF Head(s) = b THEN 1
  ELSE LET i == IndexOf(Tail(s), b) IN IF i = 0 THEN 0 ELSE i + 1

Remove(s, b) == SelectSeq(s, LAMBDA x : x /= b)

\* ------------------------------------------------------------------ LRUCache
\* The OrderedDict self.cache is the sequence of its keys (front = the item
\* popitem(last=False) removes) and the mapping data from the keys to the
\* stored dicts.  The time stamps of the entries are kept by their order
\* only: by_access lists the resident buckets by their latest stamp
\* (created_at, last_used, updated_at), oldest first.
LRUCache_init(capacity) ==
  [keys |-> <<>>, data |-> <<>>, capacity |-> capacity,
   hits |-> 0, misses |-> 0, total_requests |-> 0, by_access |-> <<>>]

\* _get_confidence_bucket with > for the >= of line 48.
get_confidence_bucket_above(confidence) ==
  IF AtLeast(confidence, BoundExcellent) THEN "excellent"
  ELSE IF AtLeast(confidence, BoundGood) THEN "good"
  ELSE IF AtLeast(confidence, BoundModerate) THEN "moderate"
  ELSE IF AtLeast(confidence, BoundAcceptable) THEN "acceptable"
  ELSE IF confidence.num > BoundThreshold * confidence.den THEN "threshold"
  ELSE "rejected"

\* LRUCache._get_confidence_bucket
get_confidence_bucket(confidence) ==
  IF AtLeast(confidence, BoundExcellent) THEN "excellent"
  ELSE IF AtLeast(confidence, BoundGood) THEN "good"
  ELSE IF AtLeast(confidence, BoundModerate) THEN "moderate"
  ELSE IF AtLeast(confidence, BoundAcceptable) THEN "acceptable"
  ELSE IF AtLeast(confidence, BoundThreshold) THEN "threshold"
  ELSE "rejected"

Resident(self, bucket) == IndexOf(self.keys, bucket) /= 0

\* OrderedDict.move_to_end(key)
move_to_end(keys, key) == Append(Remove(keys, key), key)

\* Reading time.time() into a stamp of the entry of bucket.
Stamp(self, bucket) ==
  [self EXCEPT !.by_access = Append(Remove(self.by_access, bucket), bucket)]

\* put with the popitem of line 89 left out.
popitem_nothing(self) == self

\* OrderedDict.popitem(last=False): the first key leaves with its dict.
popitem_first(self) ==
  LET evicted_key == Head(self.keys)
  IN [self EXCEPT !.keys = Tail(self.keys),
                  !.data = [b \in (DOMAIN self.data) \ {evicted_key} |-> self.data[b]],
                  !.by_access = Remove(self.by_access, evicted_key)]

\* LRUCache.get with the move_to_end of line 60 left out.
LRUCache_get_no_move(self, avg_confidence) ==
  LET counted == [self EXCEPT !.total_requests = @ + 1]
      bucket == get_confidence_bucket(avg_confidence)
  IN IF Resident(counted, bucket)
     THEN LET hit == [counted EXCEPT !.hits = @ + 1,
                                     !.data[bucket].hit_count = @ + 1]
          IN [self |-> Stamp(hit, bucket), ret |-> hit.data[bucket].response]
     ELSE [self |-> [counted EXCEPT !.misses = @ + 1], ret |-> None]

\* LRUCache.get: the cache after the call and the value returned.
LRUCache_get(self, avg_confidence) ==
  LET counted == [self EXCEPT !.total_requests = @ + 1]
      bucket == get_confidence_bucket(avg_confidence)
  IN IF Resident(counted, bucket)
     THEN LET hit == [counted EXCEPT !.keys = move_to_end(counted.keys, bucket),
                                     !.hits = @ + 1,
                                     !.data[bucket].hit_count = @ + 1]
          IN [self |-> Stamp(hit, bucket), ret |-> hit.data[bucket].response]
     ELSE [self |-> [counted EXCEPT !.misses = @ + 1], ret |-> None]

\* put with the assignment of line 82 left out.
LRUCache_put_no_update(self, avg_confidence, response) ==
  LET bucket == get_confidence_bucket(avg_confidence)
  IN IF Resident(self, bucket)
     THEN [self |-> Stamp([self EXCEPT !.keys = move_to_end(self.keys, bucket)],
                          bucket),
           evicted_key |-> None]
     ELSE LET full == Len(self.keys) >= self.capacity
              room == IF full THEN popitem_first(self) ELSE self
          IN [self |-> Stamp([room EXCEPT
                                !.keys = Append(room.keys, bucket),
                                !.data = (bucket :> [response |-> response,
                                                     hit_count |-> 0]) @@ room.data],
                             bucket),
              evicted_key |-> IF full THEN Head(self.keys) ELSE None]

\* put with len(self.cache) + 1 >= self.capacity for the test of line 87.
LRUCache_put_full_early(self, avg_confidence, response) ==
  LET bucket == get_confidence_bucket(avg_confidence)
  IN IF Resident(self, bucket)
     THEN [self |-> Stamp([self EXCEPT !.keys = move_to_end(self.keys, bucket),
                                       !.data[bucket].response = response],
                          bucket),
           evicted_key |-> None]
     ELSE LET full == Len(self.keys) + 1 >= self.capacity /\ self.keys /= <<>>
              room == IF full THEN popitem_first(self) ELSE self
          IN [self |-> Stamp([room EXCEPT
                                !.keys = Append(room.keys, bucket),
                                !.data = (bucket :> [response |-> response,
                                                     hit_count |-> 0]) @@ room.data],
                             bucket),
              evicted_key |-> IF full THEN Head(self.keys) ELSE None]

\* LRUCache.put: the cache after the call and the key it evicted (None when
\* it evicted nothing).
LRUCache_put(self, avg_confidence, response) ==
  LET bucket == get_confidence_bucket(avg_confidence)
  IN IF Resident(self, bucket)
     THEN [self |-> Stamp([self EXCEPT !.keys = move_to_end(self.keys, bucket),
                                       !.data[bucket].response = response],
                          bucket),
           evicted_key |-> None]
     ELSE LET full == Len(self.keys) >= self.capacity
              room == IF full THEN popitem_first(self) ELSE self
          IN [self |-> Stamp([room EXCEPT
                                !.keys = Append(room.keys, bucket),
                                !.data = (bucket :> [response |-> response,
                                                     hit_count |-> 0]) @@ room.data],
                             bucket),
              evicted_key |-> IF full THEN Head(self.keys) ELSE None]

\* LRUCache.clear: the cache after the call and the count returned.
LRUCache_clear(self) ==
  [self |-> [self EXCEPT !.keys = <<>>, !.data = <<>>, !.by_access = <<>>],
   ret |-> Len(self.keys)]

\* LRUCache.get_stats: the snapshot returned.
LRUCache_get_stats(self) ==
  [capacity |-> self.capacity, current_size |-> Len(self.keys),
   total_requests |-> self.total_requests, hits |-> self.hits,
   misses |-> self.misses, buckets |-> self.keys,
   bucket_stats |-> [b \in DOMAIN self.data |-> self.data[b].hit_count]]

\* ------------------------------------------------------------------ LLMRouter
FallbackRuntime == "ollama"
FailureText == "Error: Todos los modelos fallaron"

LLMRouter_init ==
  LET rotation == <<"gemini-2.5-flash", "dart", "go", "ollama", "gemini-1.5-pro">>
      names == {rotation[i] : i \in DOMAIN rotation}
  IN [rotation |-> rotation, current_index |-> 0,
      calls_by_runtime |-> [r \in names |-> 0],
      failures_by_runtime |-> [r \in names |-> 0],
      fallbacks_to_ollama |-> 0]

Runtimes == DOMAIN LLMRouter_init.calls_by_runtime

\* What the _call_* method of a runtime returns for an outcome of its
\* network call: None on a failure, else the text of the reply.
call_backend(runtime, kind) ==
  IF kind = "fail" THEN None
  ELSE IF kind = "empty" THEN ""
  ELSE "reply of " \o runtime

\* _try_runtime with the success count of line 125 left out.
try_runtime_uncounted(self, runtime, prompt, kind) ==
  LET response == IF runtime \in Runtimes THEN call_backend(runtime, kind) ELSE None
      success == response /= None
  IN [self |-> IF success THEN self
               ELSE [self EXCEPT !.failures_by_runtime[runtime] = @ + 1],
      response |-> response, success |-> success,
      invoked |-> [runtime |-> runtime, prompt |-> prompt,
                   response |-> response, success |-> success]]

\* LLMRouter._try_runtime: the router after the call, (response, success),
\* and the invocation made.
try_runtime(self, runtime, prompt, kind) ==
  LET response == IF runtime \in Runtimes THEN call_backend(runtime, kind) ELSE None
      success == response /= None
  IN [self |-> IF success
               THEN [self EXCEPT !.calls_by_runtime[runtime] = @ + 1]
               ELSE [self EXCEPT !.failures_by_runtime[runtime] = @ + 1],
      response |-> response, success |-> success,
      invoked |-> [runtime |-> runtime, prompt |-> prompt,
                   response |-> response, success |-> success]]

\* The failure dict with used_fallback left False.
complete_failure_unflagged ==
  [response |-> FailureText, runtime |-> "none",
   used_fallback |-> FALSE, success |-> FALSE]

\* The failure dict naming the backend tried last.
complete_failure_names_backend ==
  [response |-> FailureText, runtime |-> "ollama (fallback)",
   used_fallback |-> TRUE, success |-> FALSE]

\* The dict returned when every attempt failed (llm_router.py 179-186).
complete_failure ==
  [response |-> FailureText, runtime |-> "none",
   used_fallback |-> TRUE, success |-> FALSE]

\* The cursor stepping over a backend, and the cursor left where it was.
next_index_skip(self) == (self.current_index + 2) % Len(self.rotation)
next_index_stuck(self) == self.current_index

\* The cursor after a dispatch (llm_router.py 148).
next_index(self) == (self.current_index + 1) % Len(self.rotation)

\* The fallback tried after every failed primary, Ollama included.
needs_fallback_always(primary_runtime) == TRUE

\* Whether a failed primary is followed by the fallback (llm_router.py 163).
needs_fallback(primary_runtime) == primary_runtime /= FallbackRuntime

\* llm_router.py 162-186: what call_with_round_robin returns once the
\* fallback attempt second has followed the failed attempt first.
after_fallback(first, second, primary_runtime) ==
  IF second.success
  THEN [self |-> second.self,
        ret |-> [response |-> second.response, runtime |-> "ollama (fallback)",
                 used_fallback |-> TRUE, primary_tried |-> primary_runtime,
                 success |-> TRUE],
        invoked |-> <<first.invoked, second.invoked>>]
  ELSE [self |-> second.self, ret |-> complete_failure,
        invoked |-> <<first.invoked, second.invoked>>]

\* llm_router.py 153-186: what call_with_round_robin returns once the
\* attempt first on the primary is made.
after_primary(first, primary_runtime, prompt, kind2) ==
  IF first.success
  THEN [self |-> first.self,
        ret |-> [response |-> first.response, runtime |-> primary_runtime,
                 used_fallback |-> FALSE, success |-> TRUE],
        invoked |-> <<first.invoked>>]
  ELSE IF needs_fallback(primary_runtime)
  THEN after_fallback(first,
                      try_runtime([first.self EXCEPT !.fallbacks_to_ollama = @ + 1],
                                  FallbackRuntime, prompt, kind2),
                      primary_runtime)
  ELSE [self |-> first.self, ret |-> complete_failure,
        invoked |-> <<first.invoked>>]

\* The primary read after the cursor has moved (line 145 after line 148).
primary_of_moved(self) == self.rotation[next_index(self) + 1]

\* The backend at the cursor (llm_router.py 145).
primary_of(self) == self.rotation[self.current_index + 1]

\* LLMRouter.call_with_round_robin: the router after the call, the dict
\* returned and the backend invocations made, in order.  kind1 and kind2 are
\* the outcomes of the first and the second network call of this dispatch.
call_with_round_robin(self, prompt, kind1, kind2) ==
  after_primary(try_runtime([self EXCEPT !.current_index = next_index(self)],
                            primary_of(self), prompt, kind1),
                primary_of(self), prompt, kind2)

\* LLMRouter.get_stats: the snapshot returned.
LLMRouter_get_stats(self) ==
  [calls_by_runtime |-> self.calls_by_runtime,
   failures_by_runtime |-> self.failures_by_runtime,
   total_calls |-> SumSeq([i \in DOMAIN self.rotation |->
                             self.calls_by_runtime[self.rotation[i]]]),
   fallbacks_to_ollama |-> self.fallbacks_to_ollama,
   current_rotation_index |-> self.current_index,
   next_runtime |-> self.rotation[self.current_index + 1]]

\* ------------------------------------------------------------------ DetectionBufferService
DetectionBufferService_init(buffer_size, cache_capacity) ==
  [buffer_size |-> buffer_size, buffer |-> <<>>,
   cache |-> LRUCache_init(cache_capacity), llm_router |-> LLMRouter_init,
   total_detections |-> 0, ai_calls |-> 0, cached_responses |-> 0,
   confidence_distribution |-> [b \in Buckets |-> 0],
   latencies |-> [cache_hit |-> 0, gemini_call |-> 0]]

\* d.get('confidence', 1): a detection without a confidence counted as sure.
confidence_of_sure(d) == IF "confidence" \in DOMAIN d THEN d.confidence ELSE 100

\* d.get('confidence', 0)
confidence_of(d) == IF "confidence" \in DOMAIN d THEN d.confidence ELSE 0

calculate_avg_confidence(detections) ==
  IF detections = <<>> THEN Conf(0, 1)
  ELSE Conf(SumSeq([i \in DOMAIN detections |-> confidence_of(detections[i])]),
            Len(detections))

\* The boundaries of the six templates of _generate_adaptive_prompt, in
\* percent (detection_buffer.py 81, 88, 95, 102, 109).
ToneExcellent == 90
ToneGood == 75
ToneModerate == 60
ToneAcceptable == 45
ToneThreshold == 40

\* _generate_adaptive_prompt with > for the >= of line 109.
generate_adaptive_prompt_above(avg_confidence, detection_count) ==
  [tone |-> IF AtLeast(avg_confidence, ToneExcellent) THEN "alegre y seguro"
            ELSE IF AtLeast(avg_confidence, ToneGood) THEN "positivo con ligero humor"
            ELSE IF AtLeast(avg_confidence, ToneModerate) THEN "ligeramente bromista"
            ELSE IF AtLeast(avg_confidence, ToneAcceptable) THEN "bromista/ironico"
            ELSE IF avg_confidence.num > ToneThreshold * avg_confidence.den
                 THEN "muy ironico y divertido"
            ELSE "muy bromista sobre el RECHAZO",
   detection_count |-> detection_count, avg_confidence |-> avg_confidence]

\* The prompt is kept by what distinguishes the six templates (the tone
\* asked for) and by its two parameters.
generate_adaptive_prompt(avg_confidence, detection_count) ==
  [tone |-> IF AtLeast(avg_confidence, ToneExcellent) THEN "alegre y seguro"
            ELSE IF AtLeast(avg_confidence, ToneGood) THEN "positivo con ligero humor"
            ELSE IF AtLeast(avg_confidence, ToneModerate) THEN "ligeramente bromista"
            ELSE IF AtLeast(avg_confidence, ToneAcceptable) THEN "bromista/ironico"
            ELSE IF AtLeast(avg_confidence, ToneThreshold) THEN "muy ironico y divertido"
            ELSE "muy bromista sobre el RECHAZO",
   detection_count |-> detection_count, avg_confidence |-> avg_confidence]

\* detection_buffer.py 135-140 with the else branch left out.
llm_outcome_no_else(self, call) ==
  IF call.ret.success
  THEN [self |-> [self EXCEPT !.llm_router = call.self, !.ai_calls = @ + 1],
        response |-> call.ret.response, runtime |-> call.ret.runtime,
        router_ret |-> call.ret, invoked |-> call.invoked]
  ELSE [self |-> [self EXCEPT !.llm_router = call.self],
        response |-> None, runtime |-> None,
        router_ret |-> call.ret, invoked |-> call.invoked]

\* detection_buffer.py 133-140: what _call_llm_with_fallback makes of the
\* router's call.
llm_outcome(self, call) ==
  IF call.ret.success
  THEN [self |-> [self EXCEPT !.llm_router = call.self, !.ai_calls = @ + 1],
        response |-> call.ret.response, runtime |-> call.ret.runtime,
        router_ret |-> call.ret, invoked |-> call.invoked]
  ELSE [self |-> [self EXCEPT !.llm_router = call.self],
        response |-> FailureText, runtime |-> "none",
        router_ret |-> call.ret, invoked |-> call.invoked]

\* DetectionBufferService._call_llm_with_fallback: the service after the
\* call, the pair (response, runtime_used) returned, the router's dict and
\* the backend invocations made.
call_llm_with_fallback(self, prompt, kind1, kind2) ==
  llm_outcome(self, call_with_round_robin(self.llm_router, prompt, kind1, kind2))

\* The dict _process_buffer returns (latency_ms, a measured time, left out).
processing_result(source, response, runtime, avg_confidence, detections) ==
  [source |-> source, response |-> response, runtime |-> runtime,
   avg_confidence |-> avg_confidence,
   confidence_bucket |-> get_confidence_bucket(avg_confidence),
   detection_count |-> Len(detections), detections |-> detections]

\* The miss path with the self.buffer = [] of line 195 left out.
after_put_keeps_buffer(llm, stored, avg_confidence) ==
  [self |-> [llm.self EXCEPT !.latencies.gemini_call = @ + 1,
                             !.cache = stored.self],
   ret |-> processing_result("gemini", llm.response, llm.runtime,
                             avg_confidence, llm.self.buffer),
   router_ret |-> llm.router_ret, invoked |-> llm.invoked,
   evicted_key |-> stored.evicted_key]

\* detection_buffer.py 188-206: the miss path once the text llm is there and
\* cache.put has stored it.
after_put(llm, stored, avg_confidence) ==
  [self |-> [llm.self EXCEPT !.latencies.gemini_call = @ + 1,
                             !.cache = stored.self,
                             !.buffer = <<>>],
   ret |-> processing_result("gemini", llm.response, llm.runtime,
                             avg_confidence, llm.self.buffer),
   router_ret |-> llm.router_ret, invoked |-> llm.invoked,
   evicted_key |-> stored.evicted_key]

\* The miss path storing the text of a successful dispatch only.
after_llm_stores_successes(llm, avg_confidence) ==
  after_put(llm,
            IF llm.router_ret.success
            THEN LRUCache_put(llm.self.cache, avg_confidence, llm.response)
            ELSE [self |-> llm.self.cache, evicted_key |-> None],
            avg_confidence)

\* detection_buffer.py 186-206: the miss path once the router has answered.
after_llm(llm, avg_confidence) ==
  after_put(llm, LRUCache_put(llm.self.cache, avg_confidence, llm.response),
            avg_confidence)

\* The hit path of _process_buffer counting a generation call.
after_get_counts_call(self, cached_response, avg_confidence, kind1, kind2) ==
  IF Truthy(cached_response)
  THEN [self |-> [self EXCEPT !.cached_responses = @ + 1,
                              !.ai_calls = @ + 1,
                              !.latencies.cache_hit = @ + 1,
                              !.buffer = <<>>],
        ret |-> processing_result("cache", cached_response, "cache",
                                  avg_confidence, self.buffer),
        router_ret |-> NoneDict, invoked |-> <<>>, evicted_key |-> None]
  ELSE after_llm(call_llm_with_fallback(
                   self,
                   generate_adaptive_prompt(avg_confidence, Len(self.buffer)),
                   kind1, kind2),
                 avg_confidence)

\* detection_buffer.py 161-206: what _process_buffer does with the answer
\* of cache.get.
after_get(self, cached_response, avg_confidence, kind1, kind2) ==
  IF Truthy(cached_response)
  THEN [self |-> [self EXCEPT !.cached_responses = @ + 1,
                              !.latencies.cache_hit = @ + 1,
                              !.buffer = <<>>],
        ret |-> processing_result("cache", cached_response, "cache",
                                  avg_confidence, self.buffer),
        router_ret |-> NoneDict, invoked |-> <<>>, evicted_key |-> None]
  ELSE after_llm(call_llm_with_fallback(
                   self,
                   generate_adaptive_prompt(avg_confidence, Len(self.buffer)),
                   kind1, kind2),
                 avg_confidence)

\* _process_buffer counting the bucket of the windows it generates for only.
process_window_counts_misses(self, avg_confidence, looked, kind1, kind2) ==
  after_get([self EXCEPT
               !.confidence_distribution[get_confidence_bucket(avg_confidence)] =
                  IF Truthy(looked.ret) THEN @ ELSE @ + 1,
               !.cache = looked.self],
            looked.ret, avg_confidence, kind1, kind2)

\* detection_buffer.py 153-206: _process_buffer once the mean is computed.
process_window(self, avg_confidence, looked, kind1, kind2) ==
  after_get([self EXCEPT
               !.confidence_distribution[get_confidence_bucket(avg_confidence)] = @ + 1,
               !.cache = looked.self],
            looked.ret, avg_confidence, kind1, kind2)

\* DetectionBufferService._process_buffer: the service after the call, the
\* dict returned, and what the call did on the way (the router's dict and
\* the backend invocations when it dispatched, the key the cache evicted).
process_buffer(self, kind1, kind2) ==
  IF self.buffer = <<>>
  THEN [self |-> self, ret |-> NoneDict, router_ret |-> NoneDict,
        invoked |-> <<>>, evicted_key |-> None]
  ELSE process_window(self, calculate_avg_confidence(self.buffer),
                      LRUCache_get(self.cache,
                                   calculate_avg_confidence(self.buffer)),
                      kind1, kind2)

\* What add_detection returns while the buffer is not full.
buffered(self) ==
  [self |-> self, ret |-> NoneDict, router_ret |-> NoneDict,
   invoked |-> <<>>, evicted_key |-> None]

\* Lines 64-67 with > for the >= of line 64.
process_if_over(self, kind1, kind2) ==
  IF Len(self.buffer) > self.buffer_size
  THEN process_buffer(self, kind1, kind2)
  ELSE buffered(self)

\* DetectionBufferService.add_detection once the detection is appended
\* (lines 64-67).
process_if_full(self, kind1, kind2) ==
  IF Len(self.buffer) >= self.buffer_size
  THEN process_buffer(self, kind1, kind2)
  ELSE buffered(self)

\* DetectionBufferService.add_detection
add_detection(self, detection, kind1, kind2) ==
  process_if_full([self EXCEPT !.buffer = Append(@, detection),
                               !.total_detections = @ + 1],
                  kind1, kind2)

\* clear_buffer with the count of line 248 taken after line 249.
clear_buffer_counts_after(self) ==
  [self |-> [self EXCEPT !.buffer = <<>>], ret |-> 0]

\* clear_buffer starting the count of detections afresh.
clear_buffer_resets_count(self) ==
  [self |-> [self EXCEPT !.buffer = <<>>, !.total_detections = 0],
   ret |-> Len(self.buffer)]

\* DetectionBufferService.clear_buffer
clear_buffer(self) ==
  [self |-> [self EXCEPT !.buffer = <<>>], ret |-> Len(self.buffer)]

\* DetectionBufferService.get_stats: the snapshot returned (the latency
\* averages are left out: the model keeps the number of samples only).
DetectionBufferService_get_stats(self) ==
  [buffer |-> [size |-> self.buffer_size,
               current_detections |-> Len(self.buffer),
               total_detections_processed |-> self.total_detections],
   confidence_distribution |-> self.confidence_distribution,
   critical_zone_detections |-> self.confidence_distribution["threshold"],
   ai |-> [total_calls |-> self.ai_calls,
           cached_responses |-> self.cached_responses],
   llm_router |-> LLMRouter_get_stats(self.llm_router),
   cache |-> LRUCache_get_stats(self.cache)]

\* A dict is truthy unless it is None or empty.
IsResult(dict) == dict /= NoneDict

\* main.py add_detection_to_buffer: the body of the HTTP response.
buffered_status(self) ==
  [status |-> "buffered", buffer_count |-> Len(self.buffer),
   buffer_size |-> self.buffer_size]

\* ------------------------------------------------------------------ state
\* The fields of the one DetectionBufferService of the process (main.py
\* get_buffer_service), then what the last operation did: its name, the value
\* it returned, the body of the HTTP response, the dict the router returned
\* to it, the backend invocations it made, the key its cache.put evicted;
\* last_window is the last full-window result (with whether the cache was
\* empty when that window was processed), dispatches counts the calls of
\* call_with_round_robin.  Of the event loop that serves the endpoints:
\* pending is the number of add requests that have arrived and wait for
\* their handler to run, frame holds the position and the local variables
\* of the handler that is running (NoneDict when none is).
VARIABLES buffer_size, buffer, cache, llm_router, total_detections, ai_calls,
          cached_responses, confidence_distribution, latencies,
          op, result, http, router_ret, invoked, evicted, last_window, dispatches,
          pending, frame

fields == <<buffer_size, buffer, cache, llm_router, total_detections, ai_calls,
            cached_responses, confidence_distribution, latencies>>
vars == <<buffer_size, buffer, cache, llm_router, total_detections, ai_calls,
          cached_responses, confidence_distribution, latencies,
          op, result, http, router_ret, invoked, evicted, last_window, dispatches,
          pending, frame>>

Self ==
  [buffer_size |-> buffer_size, buffer |-> buffer, cache |-> cache,
   llm_router |-> llm_router, total_detections |-> total_detections,
   ai_calls |-> ai_calls, cached_responses |-> cached_responses,
   confidence_distribution |-> confidence_distribution, latencies |-> latencies]

Install(self) ==
  /\ buffer_size' = self.buffer_size
  /\ buffer' = self.buffer
  /\ cache' = self.cache
  /\ llm_router' = self.llm_router
  /\ total_detections' = self.total_detections
  /\ ai_calls' = self.ai_calls
  /\ cached_responses' = self.cached_responses
  /\ confidence_distribution' = self.confidence_distribution
  /\ latencies' = self.latencies

\* The detections a request can carry: the n-th one arriving, with one of
\* the confidences or with no confidence key.
Detections(n) ==
  {[payload |-> n]} \cup {[payload |-> n, confidence |-> c] : c \in Confidences}

Constructed(self) ==
  /\ buffer_size = self.buffer_size
  /\ buffer = self.buffer
  /\ cache = self.cache
  /\ llm_router = self.llm_router
  /\ total_detections = self.total_detections
  /\ ai_calls = self.ai_calls
  /\ cached_responses = self.cached_responses
  /\ confidence_distribution = self.confidence_distribution
  /\ latencies = self.latencies

\* The service as constructed: main.py builds it with buffer_size=4 and
\* cache_capacity=20; both are constructor parameters, and the model takes
\* every window size and cache capacity up to its bounds.
Init ==
  /\ \E size \in 1..MaxBufferSize, capacity \in 1..MaxCapacity :
       Constructed(DetectionBufferService_init(size, capacity))
  /\ op = "init"
  /\ result = NoneDict
  /\ http = NoneDict
  /\ router_ret = NoneDict
  /\ invoked = <<>>
  /\ evicted = None
  /\ last_window = NoneDict
  /\ dispatches = 0
  /\ pending = 0
  /\ frame = NoneDict

\* ------------------------------------------------------------------ the endpoints
\* POST /buffer/add-detection, once add_detection has returned.
add_detection_returned(call) ==
  /\ Install(call.self)
  /\ op' = "add_detection"
  /\ result' = call.ret
  /\ http' = IF IsResult(call.ret) THEN call.ret ELSE buffered_status(call.self)
  /\ router_ret' = call.router_ret
  /\ invoked' = call.invoked
  /\ evicted' = call.evicted_key
  /\ last_window' = IF IsResult(call.ret)
                    THEN [result |-> call.ret, cold |-> cache.keys = <<>>]
                    ELSE last_window
  /\ dispatches' = IF call.router_ret = NoneDict THEN dispatches
                   ELSE dispatches + 1

\* POST /buffer/add-detection
AddDetection(detection, kind1, kind2) ==
  /\ total_detections < MaxDetections
  /\ cache.total_requests < MaxWindows
  /\ add_detection_returned(add_detection(Self, detection, kind1, kind2))

clear_buffer_returned(call) ==
  /\ Install(call.self)
  /\ op' = "clear_buffer"
  /\ result' = [cleared_count |-> call.ret]
  /\ http' = [status |-> "cleared", detections_discarded |-> call.ret]
  /\ router_ret' = NoneDict
  /\ invoked' = <<>>
  /\ evicted' = None
  /\ UNCHANGED <<last_window, dispatches>>

\* POST /buffer/clear
ClearBuffer == clear_buffer_returned(clear_buffer(Self))

\* A stats call that hands out the buffer and leaves an empty one.
GetBufferStatsDraining ==
  /\ op' = "get_stats"
  /\ result' = DetectionBufferService_get_stats(Self)
  /\ http' = result'
  /\ router_ret' = NoneDict
  /\ invoked' = <<>>
  /\ evicted' = None
  /\ buffer' = <<>>
  /\ UNCHANGED <<buffer_size, cache, llm_router, total_detections, ai_calls,
                 cached_responses, confidence_distribution, latencies,
                 last_window, dispatches>>

\* GET /buffer/stats
GetBufferStats ==
  /\ op' = "get_stats"
  /\ result' = DetectionBufferService_get_stats(Self)
  /\ http' = result'
  /\ router_ret' = NoneDict
  /\ invoked' = <<>>
  /\ evicted' = None
  /\ UNCHANGED <<fields, last_window, dispatches>>

Next ==
  /\ \/ \E d \in Detections(total_detections + 1), kind1, kind2 \in OutcomeKinds :
          AddDetection(d, kind1, kind2)
     \/ ClearBuffer
     \/ GetBufferStats
  /\ UNCHANGED <<pending, frame>>

Spec == Init /\ [][Next]_vars

\* ------------------------------------------------------------------ the cache driven directly
cache_get_returned(call, confidence) ==
  /\ cache' = call.self
  /\ op' = "cache.get"
  /\ result' = [ret |-> call.ret, confidence |-> confidence]
  /\ evicted' = None

CacheGet(confidence) ==
  /\ cache.total_requests < MaxRequests
  /\ cache_get_returned(LRUCache_get(cache, confidence), confidence)

cache_put_returned(call, confidence, text) ==
  /\ cache' = call.self
  /\ op' = "cache.put"
  /\ result' = [confidence |-> confidence, text |-> text]
  /\ evicted' = call.evicted_key

CachePut(confidence, text) ==
  cache_put_returned(LRUCache_put(cache, confidence, text), confidence, text)

cache_clear_returned(call) ==
  /\ cache' = call.self
  /\ op' = "cache.clear"
  /\ result' = [cleared_count |-> call.ret]
  /\ evicted' = None

CacheClear == cache_clear_returned(LRUCache_clear(cache))

CacheGetStats ==
  /\ op' = "cache.get_stats"
  /\ result' = LRUCache_get_stats(cache)
  /\ evicted' = None
  /\ UNCHANGED cache

NextCache ==
  /\ \/ \E c \in CacheConfidences : CacheGet(Conf(c, 1))
     \/ \E c \in CacheConfidences, text \in Texts : CachePut(Conf(c, 1), text)
     \/ CacheClear
     \/ CacheGetStats
  /\ UNCHANGED <<buffer_size, buffer, llm_router, total_detections, ai_calls,
                 cached_responses, confidence_distribution, latencies,
                 http, router_ret, invoked, last_window, dispatches,
                 pending, frame>>

SpecCache == Init /\ [][NextCache]_vars

\* ------------------------------------------------------------------ the router driven directly
dispatch_returned(call) ==
  /\ llm_router' = call.self
  /\ op' = "call_with_round_robin"
  /\ result' = call.ret
  /\ router_ret' = call.ret
  /\ invoked' = call.invoked
  /\ dispatches' = dispatches + 1

Dispatch(prompt, kind1, kind2) ==
  /\ dispatches < MaxDispatches
  /\ dispatch_returned(call_with_round_robin(llm_router, prompt, kind1, kind2))

RouterGetStats ==
  /\ op' = "router.get_stats"
  /\ result' = LLMRouter_get_stats(llm_router)
  /\ router_ret' = NoneDict
  /\ invoked' = <<>>
  /\ UNCHANGED <<llm_router, dispatches>>

NextRouter ==
  /\ \/ \E prompt \in Prompts, kind1, kind2 \in OutcomeKinds :
          Dispatch(prompt, kind1, kind2)
     \/ RouterGetStats
  /\ UNCHANGED <<buffer_size, buffer, cache, total_detections, ai_calls,
                 cached_responses, confidence_distribution, latencies,
                 http, evicted, last_window, pending, frame>>

SpecRouter == Init /\ [][NextRouter]_vars

\* ------------------------------------------------------------------ add_detection step by step
\* add_detection in two steps: lines 59-60 (the append and the count), then
\* lines 64-67 (the test of the length and _process_buffer).  The endpoints
\* are coroutines that never await, so the event loop runs one handler to
\* its end before the next one starts: while op = Appended only the second
\* step of the add can follow.
Appended == "add_detection.appended"

AppendDetection(detection) ==
  /\ op /= Appended
  /\ total_detections < MaxDetections
  /\ cache.total_requests < MaxWindows
  /\ buffer' = Append(buffer, detection)
  /\ total_detections' = total_detections + 1
  /\ op' = Appended
  /\ result' = NoneDict
  /\ http' = NoneDict
  /\ router_ret' = NoneDict
  /\ invoked' = <<>>
  /\ evicted' = None
  /\ UNCHANGED <<buffer_size, cache, llm_router, ai_calls, cached_responses,
                 confidence_distribution, latencies, last_window, dispatches>>

ProcessIfFull(kind1, kind2) ==
  /\ op = Appended
  /\ add_detection_returned(process_if_full(Self, kind1, kind2))

NextSteps ==
  /\ \/ \E d \in Detections(total_detections + 1) : AppendDetection(d)
     \/ \E kind1, kind2 \in OutcomeKinds : ProcessIfFull(kind1, kind2)
     \/ op /= Appended /\ ClearBuffer
     \/ op /= Appended /\ GetBufferStats
  /\ UNCHANGED <<pending, frame>>

SpecSteps == Init /\ [][NextSteps]_vars

\* ------------------------------------------------------------------ the two classifications
\* _get_confidence_bucket and _generate_adaptive_prompt applied to every
\* confidence from below 0 to above 1 in steps of half a percent; the
\* prompt is asked for a window of buffer_size detections, as
\* _process_buffer does.
ConfidenceInputs ==
  {Conf(n, 2) : n \in (0 - HalfPercentsBelowZero)..MaxHalfPercent}

GetConfidenceBucket(confidence) ==
  /\ op' = "get_confidence_bucket"
  /\ result' = [confidence |-> confidence,
                bucket |-> get_confidence_bucket(confidence)]

GenerateAdaptivePrompt(confidence) ==
  /\ op' = "generate_adaptive_prompt"
  /\ result' = [confidence |-> confidence,
                prompt |-> generate_adaptive_prompt(confidence, buffer_size)]

NextBucket ==
  /\ \/ \E c \in ConfidenceInputs : GetConfidenceBucket(c)
     \/ \E c \in ConfidenceInputs : GenerateAdaptivePrompt(c)
  /\ UNCHANGED <<fields, http, router_ret, invoked, evicted, last_window,
                 dispatches, pending, frame>>

SpecBucket == Init /\ [][NextBucket]_vars

\* ------------------------------------------------------------------ a cache with room for every bucket
\* The service constructed with a cache capacity of the number of buckets
\* (main.py constructs it with 20, which is more), fed with detections whose
\* confidences are the lower ends of the six buckets (30 for rejected), the
\* backends answering every call with a text.
RoomyConfidences == {30, 40, 45, 60, 75, 90}
RoomyKinds == {"text"}

RoomyDetections(n) == {[payload |-> n, confidence |-> c] : c \in RoomyConfidences}

InitRoomy ==
  /\ \E size \in 1..2 :
       Constructed(DetectionBufferService_init(size, Cardinality(Buckets)))
  /\ op = "init"
  /\ result = NoneDict
  /\ http = NoneDict
  /\ router_ret = NoneDict
  /\ invoked = <<>>
  /\ evicted = None
  /\ last_window = NoneDict
  /\ dispatches = 0
  /\ pending = 0
  /\ frame = NoneDict

AddRoomyDetection(detection, kind1, kind2) ==
  /\ total_detections < MaxRoomyDetections
  /\ add_detection_returned(add_detection(Self, detection, kind1, kind2))

NextRoomy ==
  /\ \/ \E d \in RoomyDetections(total_detections + 1), kind1, kind2 \in RoomyKinds :
          AddRoomyDetection(d, kind1, kind2)
     \/ ClearBuffer
     \/ GetBufferStats
  /\ UNCHANGED <<pending, frame>>

SpecRoomy == InitRoomy /\ [][NextRoomy]_vars

\* ------------------------------------------------------------------ the event loop
\* The endpoints are coroutines (async def) whose bodies call the service
\* synchronously and never await: the one event loop of the process takes a
\* request, runs its handler to the return, and only then takes the next
\* one; a request that arrives meanwhile waits.  The handler of an add runs
\* in the steps below, the backend calls being the steps that take time.
Running == frame /= NoneDict
At(pc) == frame /= NoneDict /\ frame.pc = pc

\* A client sends POST /buffer/add-detection.
RequestArrives ==
  /\ pending < MaxPending
  /\ pending' = pending + 1
  /\ UNCHANGED <<fields, op, result, http, router_ret, invoked, evicted,
                 last_window, dispatches, frame>>

\* The loop starts the handler of a waiting add: lines 59-60.
LoopAppend(detection) ==
  /\ ~Running
  /\ pending > 0
  /\ total_detections < MaxLoopDetections
  /\ pending' = pending - 1
  /\ buffer' = Append(buffer, detection)
  /\ total_detections' = total_detections + 1
  /\ frame' = [pc |-> "appended"]
  /\ op' = Appended
  /\ result' = NoneDict
  /\ http' = NoneDict
  /\ router_ret' = NoneDict
  /\ invoked' = <<>>
  /\ evicted' = None
  /\ UNCHANGED <<buffer_size, cache, llm_router, ai_calls, cached_responses,
                 confidence_distribution, latencies, last_window, dispatches>>

\* The handler returns: the loop is free again.
handler_returned(call) ==
  /\ add_detection_returned(call)
  /\ frame' = NoneDict
  /\ UNCHANGED pending

\* Lines 150-159: the mean, the distribution count and cache.get.
lookup_done(avg_confidence, looked) ==
  /\ confidence_distribution' =
       [confidence_distribution EXCEPT ![get_confidence_bucket(avg_confidence)] = @ + 1]
  /\ cache' = looked.self
  /\ frame' = [pc |-> "looked", avg_confidence |-> avg_confidence,
               cached_response |-> looked.ret]
  /\ UNCHANGED <<buffer_size, buffer, llm_router, total_detections, ai_calls,
                 cached_responses, latencies, op, result, http, router_ret,
                 invoked, evicted, last_window, dispatches, pending>>

\* Lines 64-67 and 147-159: the add returns None while the buffer is not
\* full, else _process_buffer starts and looks the bucket up.
LoopLookup ==
  /\ At("appended")
  /\ IF Len(buffer) >= buffer_size
     THEN lookup_done(calculate_avg_confidence(buffer),
                      LRUCache_get(cache, calculate_avg_confidence(buffer)))
     ELSE handler_returned(buffered(Self))

\* Lines 161-178: the cached text is returned.
LoopHit ==
  /\ At("looked")
  /\ Truthy(frame.cached_response)
  /\ \E hit \in {after_get(Self, frame.cached_response,
                            frame.avg_confidence, "fail", "fail")} :
       handler_returned(hit)

\* Lines 183-186, 131, 145: the prompt is built and the router reads the
\* backend at the cursor.
LoopReadCursor ==
  /\ At("looked")
  /\ ~Truthy(frame.cached_response)
  /\ frame' = [pc |-> "cursor_read", avg_confidence |-> frame.avg_confidence,
               prompt |-> generate_adaptive_prompt(frame.avg_confidence, Len(buffer)),
               primary_runtime |-> primary_of(llm_router)]
  /\ UNCHANGED <<fields, op, result, http, router_ret, invoked, evicted,
                 last_window, dispatches, pending>>

\* Lines 148-151: the cursor moves and the call of the primary starts.
LoopAdvance ==
  /\ At("cursor_read")
  /\ llm_router' = [llm_router EXCEPT !.current_index = next_index(llm_router)]
  /\ frame' = [frame EXCEPT !.pc = "calling"]
  /\ UNCHANGED <<buffer_size, buffer, cache, total_detections, ai_calls,
                 cached_responses, confidence_distribution, latencies,
                 op, result, http, router_ret, invoked, evicted, last_window,
                 dispatches, pending>>

\* Lines 135-140 and 188-206: the router has returned, the text is stored,
\* the buffer emptied and the result returned.
dispatch_done(call) ==
  \E done \in {after_llm(llm_outcome(Self, call), frame.avg_confidence)} :
    handler_returned(done)

\* Lines 163-167: the fallback is counted and its call starts.
fallback_started(first) ==
  /\ llm_router' = [first.self EXCEPT !.fallbacks_to_ollama = @ + 1]
  /\ frame' = [pc |-> "calling_fallback", avg_confidence |-> frame.avg_confidence,
               prompt |-> frame.prompt, primary_runtime |-> frame.primary_runtime,
               first |-> [invoked |-> first.invoked]]
  /\ UNCHANGED <<buffer_size, buffer, cache, total_detections, ai_calls,
                 cached_responses, confidence_distribution, latencies,
                 op, result, http, router_ret, invoked, evicted, last_window,
                 dispatches, pending>>

\* The primary tried again, by way of the cursor, until it answers.
primary_awaited(first) ==
  IF first.success
  THEN dispatch_done(after_primary(first, frame.primary_runtime, frame.prompt, "fail"))
  ELSE /\ frame' = [pc |-> "cursor_read", avg_confidence |-> frame.avg_confidence,
                    prompt |-> frame.prompt,
                    primary_runtime |-> primary_of(llm_router)]
       /\ UNCHANGED <<fields, op, result, http, router_ret, invoked, evicted,
                      last_window, dispatches, pending>>

primary_returned(first) ==
  IF first.success \/ ~needs_fallback(frame.primary_runtime)
  THEN dispatch_done(after_primary(first, frame.primary_runtime, frame.prompt, "fail"))
  ELSE fallback_started(first)

\* Lines 151-167: the call of the primary ends (a text, or a failure, a
\* timeout included).
LoopPrimaryReturns(kind1) ==
  /\ At("calling")
  /\ \E first \in {try_runtime(llm_router, frame.primary_runtime,
                               frame.prompt, kind1)} :
       primary_returned(first)

\* Lines 167-186: the call of the fallback ends.
LoopFallbackReturns(kind2) ==
  /\ At("calling_fallback")
  /\ \E second \in {try_runtime(llm_router, FallbackRuntime,
                                frame.prompt, kind2)} :
       dispatch_done(after_fallback(frame.first, second, frame.primary_runtime))

\* The steps of a running handler.
HandlerStep ==
  \/ LoopLookup
  \/ LoopHit
  \/ LoopReadCursor
  \/ LoopAdvance
  \/ \E kind1 \in OutcomeKinds : LoopPrimaryReturns(kind1)
  \/ \E kind2 \in OutcomeKinds : LoopFallbackReturns(kind2)

NextLoop ==
  \/ RequestArrives
  \/ \E d \in Detections(total_detections + 1) : LoopAppend(d)
  \/ HandlerStep
  \/ ~Running /\ ClearBuffer /\ UNCHANGED <<pending, frame>>
  \/ ~Running /\ GetBufferStats /\ UNCHANGED <<pending, frame>>

SpecLoop == Init /\ [][NextLoop]_vars

\* A handler that runs goes on running, and a backend call ends (each has
\* its timeout).
SpecLoopFair == SpecLoop /\ WF_vars(HandlerStep)

\* ------------------------------------------------------------------ claims
KeySet(c) == {c.keys[i] : i \in DOMAIN c.keys}
WindowDone == op = "add_detection" /\ IsResult(result)

\* C1: an add that finds fewer than N-1 events buffered returns nothing and
\* raises the fill count by one (the caller is told "buffered" with that
\* count); the add that finds N-1 events buffered returns a result whose
\* event count is N and leaves the fill count at 0.  From an empty buffer
\* the fill count is therefore 1, 2, ..., N-1 and then 0.
C1_FillThenProcess ==
  [][op' = "add_detection" =>
       /\ Len(buffer) < buffer_size
       /\ IF Len(buffer) + 1 < buffer_size
          THEN /\ result' = NoneDict
               /\ Len(buffer') = Len(buffer) + 1
               /\ http' = [status |-> "buffered", buffer_count |-> Len(buffer) + 1,
                           buffer_size |-> buffer_size]
          ELSE /\ IsResult(result')
               /\ result'.detection_count = buffer_size
               /\ http' = result'
               /\ Len(buffer') = 0]_vars

C1_Witness ==
  /\ WindowDone
  /\ buffer_size = 3
  /\ result.detection_count = 3
  /\ total_detections = 3
  /\ buffer = <<>>

\* C2: of two consecutive full windows in the same bucket, the first one
\* processed on an empty cache, the first does not come from the cache and
\* the second does, whatever the backends returned.
C2_SecondWindowFromCache ==
  [][(op' = "add_detection" /\ IsResult(result')) =>
       /\ cache.keys = <<>> => result'.source /= "cache"
       /\ (/\ last_window /= NoneDict
           /\ last_window.cold
           /\ last_window.result.confidence_bucket = result'.confidence_bucket)
          => result'.source = "cache"]_vars

\* C3: a put of a bucket that is not resident into a full cache removes
\* exactly one entry, the resident one whose last access (get hit or put) is
\* the oldest; so an entry hit since a less recently used one was last
\* accessed is not the one that goes.
C3_EvictsLeastRecentlyAccessed ==
  [][op' = "cache.put" =>
       LET bucket == get_confidence_bucket(result'.confidence)
       IN IF ~Resident(cache, bucket) /\ Len(cache.keys) >= cache.capacity
          THEN /\ evicted' = Head(cache.by_access)
               /\ KeySet(cache') = (KeySet(cache) \ {evicted'}) \cup {bucket}
               /\ Len(cache'.keys) = Len(cache.keys)
               /\ DOMAIN cache'.data = KeySet(cache')
          ELSE /\ evicted' = None
               /\ KeySet(cache') = KeySet(cache) \cup {bucket}]_vars

\* An eviction that spared an entry inserted before the evicted one, because
\* it was hit in between.
C3_Witness ==
  /\ op = "cache.put"
  /\ evicted /= None
  /\ cache.capacity = 2
  /\ cache.data[cache.keys[1]].hit_count > 0

\* What the router claims read off the last dispatch.
Dispatched == op = "call_with_round_robin"
RotationOrder == <<"gemini-2.5-flash", "dart", "go", "ollama", "gemini-1.5-pro">>
RotationLength == Len(RotationOrder)
NoFailureYet == \A r \in Runtimes : llm_router.failures_by_runtime[r] = 0
PrimaryFailed == ~invoked[1].success
FallbackInvocations ==
  Cardinality({i \in 2..Len(invoked) : invoked[i].runtime = "ollama"})

\* C4: as long as every dispatch of a fresh router has succeeded on its
\* primary, the k-th dispatch has the k-th backend of the rotation (cyclically)
\* as its primary, so after M dispatches each backend was primary exactly
\* once, in the order gemini-2.5-flash, dart, go, ollama, gemini-1.5-pro.
C4_RotationInOrder ==
  NoFailureYet =>
    /\ \A i \in 1..RotationLength :
         llm_router.calls_by_runtime[RotationOrder[i]]
           = (dispatches + RotationLength - i) \div RotationLength
    /\ Dispatched =>
         /\ Len(invoked) = 1
         /\ invoked[1].runtime = RotationOrder[((dispatches - 1) % RotationLength) + 1]
         /\ result.runtime = invoked[1].runtime

C4_Witness ==
  /\ Dispatched
  /\ NoFailureYet
  /\ dispatches = RotationLength
  /\ invoked[1].runtime = "gemini-1.5-pro"
  /\ \A r \in Runtimes : llm_router.calls_by_runtime[r] = 1

\* C5: after k dispatches of a fresh router the cursor is k mod M, whatever
\* the outcomes were; it stays in 0..M-1 and the rotation is unchanged.
C5_CursorCountsDispatches ==
  /\ llm_router.current_index = dispatches % RotationLength
  /\ llm_router.current_index \in 0..(RotationLength - 1)
  /\ llm_router.rotation = RotationOrder

\* The cursor has wrapped around, after a dispatch that failed altogether.
C5_Witness ==
  /\ Dispatched
  /\ dispatches = RotationLength + 1
  /\ llm_router.current_index = 1
  /\ ~result.success
  /\ llm_router.fallbacks_to_ollama > 0

\* C6 as stated: when the primary fails and is not the fallback backend, the
\* fallback is invoked exactly once, and the result has used_fallback = True
\* and primary_tried = the primary, whether the fallback succeeds or fails.
C6_FallbackRecordsPrimary ==
  (Dispatched /\ PrimaryFailed /\ invoked[1].runtime /= "ollama") =>
    /\ FallbackInvocations = 1
    /\ result.used_fallback
    /\ "primary_tried" \in DOMAIN result
    /\ result.primary_tried = invoked[1].runtime

\* C6 amended: when the primary fails and is not the fallback backend, the
\* fallback is invoked exactly once and the result has used_fallback = True;
\* primary_tried = the primary is recorded when the fallback succeeds, and
\* the result has no primary_tried when the fallback fails.
C6_FallbackOnce ==
  (Dispatched /\ PrimaryFailed /\ invoked[1].runtime /= "ollama") =>
    /\ FallbackInvocations = 1
    /\ Len(invoked) = 2
    /\ result.used_fallback
    /\ IF invoked[2].success
       THEN /\ "primary_tried" \in DOMAIN result
            /\ result.primary_tried = invoked[1].runtime
       ELSE "primary_tried" \notin DOMAIN result

C6_Witness ==
  /\ Dispatched
  /\ invoked[1].runtime = "dart"
  /\ PrimaryFailed
  /\ Len(invoked) = 2
  /\ ~invoked[2].success
  /\ result.used_fallback

\* C7: when the fallback fails after a failed primary, or the primary is the
\* fallback backend and fails, the result is success = False with the
\* failure text and the runtime 'none'; a failed Ollama primary is not
\* invoked again.
C7_TotalFailure ==
  (/\ Dispatched
   /\ PrimaryFailed
   /\ \/ invoked[1].runtime = "ollama"
      \/ Len(invoked) >= 2 /\ ~invoked[2].success) =>
    /\ result.success = FALSE
    /\ result.response = FailureText
    /\ result.runtime = "none"
    /\ invoked[1].runtime = "ollama" => Len(invoked) = 1

C7_Witness ==
  /\ Dispatched
  /\ invoked[1].runtime = "ollama"
  /\ PrimaryFailed
  /\ Len(invoked) = 1
  /\ result.runtime = "none"

\* C8: a dispatch whose primary succeeds adds one to that backend's success
\* counter and changes no other counter, invokes no other backend, and
\* returns the primary's text with runtime = the primary and
\* used_fallback = False.
C8_PrimarySuccess ==
  [][(op' = "call_with_round_robin" /\ invoked'[1].success) =>
       LET primary == llm_router.rotation[llm_router.current_index + 1]
       IN /\ Len(invoked') = 1
          /\ invoked'[1].runtime = primary
          /\ llm_router'.calls_by_runtime =
               [llm_router.calls_by_runtime EXCEPT ![primary] = @ + 1]
          /\ llm_router'.failures_by_runtime = llm_router.failures_by_runtime
          /\ llm_router'.fallbacks_to_ollama = llm_router.fallbacks_to_ollama
          /\ result'.response = call_backend(primary, "text")
             \/ result'.response = call_backend(primary, "empty")
          /\ result'.response = invoked'[1].response
          /\ result'.runtime = primary
          /\ result'.used_fallback = FALSE
          /\ result'.success = TRUE]_vars

C8_Witness ==
  /\ Dispatched
  /\ Len(invoked) = 1
  /\ result.runtime = "dart"
  /\ result.response = "reply of dart"
  /\ llm_router.calls_by_runtime["dart"] = 1

\* C9: a dispatch invokes one or two backends: first the primary at the
\* cursor, then, only if the primary failed and is not Ollama, Ollama; so no
\* backend is invoked twice.
C9_PrimaryThenFallback ==
  [][op' = "call_with_round_robin" =>
       LET primary == llm_router.rotation[llm_router.current_index + 1]
       IN /\ Len(invoked') \in {1, 2}
          /\ invoked'[1].runtime = primary
          /\ Len(invoked') = 2 =>
               /\ invoked'[2].runtime = "ollama"
               /\ primary /= "ollama"
               /\ ~invoked'[1].success]_vars

C9_Witness ==
  /\ Dispatched
  /\ Len(invoked) = 2
  /\ invoked[1].runtime = "go"
  /\ invoked[2].runtime = "ollama"
  /\ invoked[2].success

\* C10: a full window that misses the cache and whose primary and fallback
\* both fail still gets a complete result record: it carries the failure
\* text and the runtime 'none', and is what the endpoint answers.
ResultKeys ==
  {"source", "response", "runtime", "avg_confidence", "confidence_bucket",
   "detection_count", "detections"}

C10_FailureIsAResult ==
  (/\ op = "add_detection"
   /\ Len(invoked) = 2
   /\ ~invoked[1].success
   /\ ~invoked[2].success) =>
    /\ IsResult(result)
    /\ DOMAIN result = ResultKeys
    /\ result.source = "gemini"
    /\ result.response = FailureText
    /\ result.runtime = "none"
    /\ result.detection_count = buffer_size
    /\ http = result
    /\ router_ret.success = FALSE

C10_Witness ==
  /\ WindowDone
  /\ Len(invoked) = 2
  /\ ~invoked[1].success
  /\ ~invoked[2].success
  /\ result.response = FailureText
  /\ buffer = <<>>

\* C11: after an add that completed a window the buffer is empty and the
\* result carries the N events of the window, whether the window was served
\* from the cache, generated by a successful dispatch, or answered with the
\* failure text after a dispatch that failed altogether.
C11_EmptyAfterWindow ==
  WindowDone =>
    /\ buffer = <<>>
    /\ Len(result.detections) = buffer_size
    /\ \/ result.source = "cache" /\ invoked = <<>>
       \/ result.source = "gemini" /\ router_ret.success
       \/ result.source = "gemini" /\ ~router_ret.success

\* A window served from the cache with the failure text a window before it
\* stored after its dispatch failed: the hit and the total failure.
C11_Witness ==
  /\ WindowDone
  /\ result.source = "cache"
  /\ result.response = FailureText
  /\ buffer = <<>>
  /\ llm_router.fallbacks_to_ollama = 1
  /\ total_detections = 2 * buffer_size

\* C12: clear on a buffer of j events returns j (the endpoint answers
\* detections_discarded = j), leaves the buffer empty, and changes no other
\* field of the service: the cache (entries, order, counters), the router
\* (cursor, counters), the distribution and the other counters stay as they
\* were, and nothing is dispatched.  The add that follows a clear leaves one
\* event buffered when N > 1.
C12_ClearOnlyDrains ==
  [][/\ op' = "clear_buffer" =>
          /\ result'.cleared_count = Len(buffer)
          /\ http' = [status |-> "cleared", detections_discarded |-> Len(buffer)]
          /\ buffer' = <<>>
          /\ invoked' = <<>>
          /\ UNCHANGED <<buffer_size, cache, llm_router, total_detections,
                         ai_calls, cached_responses, confidence_distribution,
                         latencies, dispatches>>
     /\ (op = "clear_buffer" /\ op' = "add_detection" /\ buffer_size > 1) =>
          /\ Len(buffer') = 1
          /\ http' = [status |-> "buffered", buffer_count |-> 1,
                      buffer_size |-> buffer_size]]_vars

\* A clear that discarded events of the window after a processed one: the
\* cache holds an entry and the router has moved.
C12_Witness ==
  /\ op = "clear_buffer"
  /\ result.cleared_count >= 1
  /\ buffer = <<>>
  /\ cache.keys /= <<>>
  /\ llm_router.current_index = 1
  /\ total_detections = buffer_size + result.cleared_count

\* C13: the buffer never holds more than N events, and it holds fewer than N
\* whenever no add is between its append and its return, after any sequence
\* of adds and clears.
C13_BufferBelowCapacity ==
  /\ Len(buffer) <= buffer_size
  /\ op /= Appended => Len(buffer) < buffer_size

\* An add between its append and its return, the buffer holding N events,
\* after a processed window.
C13_Witness ==
  /\ op = Appended
  /\ Len(buffer) = buffer_size
  /\ buffer_size = 2
  /\ total_detections = 4
  /\ cache.total_requests = 1

\* C14: a cache constructed with capacity K >= 1 never holds more than K
\* entries, and no bucket is resident twice: the keys are distinct and each
\* has its one stored dict.
C14_SizeWithinCapacity ==
  /\ cache.capacity >= 1
  /\ Len(cache.keys) <= cache.capacity
  /\ Cardinality(KeySet(cache)) = Len(cache.keys)
  /\ DOMAIN cache.data = KeySet(cache)

\* A full cache of capacity 2 after a put that had to evict, gets having been
\* made before it.
C14_Witness ==
  /\ op = "cache.put"
  /\ evicted /= None
  /\ cache.capacity = 2
  /\ Len(cache.keys) = 2
  /\ cache.total_requests > 0

\* C15: a get of a resident bucket returns the stored text, moves that entry
\* to the most recently used end (the other entries keep their order), adds
\* one to the entry's hit count and to the cache's hits, and leaves misses,
\* the stored text and every other entry as they were.  A get of a bucket
\* that is not resident returns None, adds one to misses and leaves the
\* entries, their order and hits as they were.
C15_GetHitAndMiss ==
  [][op' = "cache.get" =>
       LET bucket == get_confidence_bucket(result'.confidence)
           others == KeySet(cache) \ {bucket}
       IN /\ cache'.total_requests = cache.total_requests + 1
          /\ cache'.capacity = cache.capacity
          /\ IF bucket \in KeySet(cache)
             THEN /\ result'.ret = cache.data[bucket].response
                  /\ cache'.keys[Len(cache'.keys)] = bucket
                  /\ SelectSeq(cache'.keys, LAMBDA b : b \in others)
                       = SelectSeq(cache.keys, LAMBDA b : b \in others)
                  /\ KeySet(cache') = KeySet(cache)
                  /\ Len(cache'.keys) = Len(cache.keys)
                  /\ cache'.data[bucket].hit_count = cache.data[bucket].hit_count + 1
                  /\ cache'.data[bucket].response = cache.data[bucket].response
                  /\ \A b \in others : cache'.data[b] = cache.data[b]
                  /\ cache'.hits = cache.hits + 1
                  /\ cache'.misses = cache.misses
             ELSE /\ result'.ret = None
                  /\ cache'.misses = cache.misses + 1
                  /\ cache'.hits = cache.hits
                  /\ cache'.keys = cache.keys
                  /\ cache'.data = cache.data
                  /\ cache'.by_access = cache.by_access]_vars

\* A hit on one of two resident entries, after a miss: the entry hit is the
\* last of the order and the only one with a hit.
C15_Witness ==
  /\ op = "cache.get"
  /\ result.ret = "cached text"
  /\ Len(cache.keys) = 2
  /\ cache.keys[2] = get_confidence_bucket(result.confidence)
  /\ cache.data[cache.keys[2]].hit_count = 1
  /\ cache.data[cache.keys[1]].hit_count = 0
  /\ cache.hits = 1
  /\ cache.misses = 1

\* C16: a put on a resident bucket stores the new text in its entry, moves
\* the entry to the most recently used end (the other entries keep their
\* order and contents), evicts nothing, so that the resident buckets and the
\* size are as before even in a full cache, and leaves hits, misses and the
\* request count as they were.
C16_PutOnResident ==
  [][(op' = "cache.put"
      /\ get_confidence_bucket(result'.confidence) \in KeySet(cache)) =>
       LET bucket == get_confidence_bucket(result'.confidence)
           others == KeySet(cache) \ {bucket}
       IN /\ cache'.data[bucket].response = result'.text
          /\ cache'.keys[Len(cache'.keys)] = bucket
          /\ SelectSeq(cache'.keys, LAMBDA b : b \in others)
               = SelectSeq(cache.keys, LAMBDA b : b \in others)
          /\ evicted' = None
          /\ KeySet(cache') = KeySet(cache)
          /\ Len(cache'.keys) = Len(cache.keys)
          /\ \A b \in others : cache'.data[b] = cache.data[b]
          /\ cache'.hits = cache.hits
          /\ cache'.misses = cache.misses
          /\ cache'.total_requests = cache.total_requests
          /\ cache'.capacity = cache.capacity]_vars

\* A put on a bucket of a full cache that was resident before it (it has
\* been hit): the new text is stored and both entries are still there.
C16_Witness ==
  /\ op = "cache.put"
  /\ evicted = None
  /\ cache.capacity = 2
  /\ Len(cache.keys) = 2
  /\ cache.keys[2] = get_confidence_bucket(result.confidence)
  /\ cache.data[cache.keys[2]].hit_count > 0
  /\ cache.data[cache.keys[2]].response = result.text
  /\ result.text = ""
  /\ cache.data[cache.keys[1]].response = "cached text"

\* C17: the bucket of a confidence c is the one of the first rule that
\* holds among c >= 0.90 excellent, c >= 0.75 good, c >= 0.60 moderate,
\* c >= 0.45 acceptable, c >= 0.40 threshold, else rejected; so every c has
\* one bucket of the six, a c below 0 is rejected, a c above 1 is excellent,
\* the same c gets the same bucket each time, and a c that is not smaller
\* does not get a lower bucket.
BucketRank(bucket) ==
  CASE bucket = "rejected" -> 0
    [] bucket = "threshold" -> 1
    [] bucket = "acceptable" -> 2
    [] bucket = "moderate" -> 3
    [] bucket = "good" -> 4
    [] bucket = "excellent" -> 5

C17_BucketOfConfidence ==
  [][op' = "get_confidence_bucket" =>
       LET c == result'.confidence
           b == result'.bucket
       IN /\ b \in Buckets
          /\ b = "excellent" <=> c.num >= 90 * c.den
          /\ b = "good" <=> (c.num >= 75 * c.den /\ c.num < 90 * c.den)
          /\ b = "moderate" <=> (c.num >= 60 * c.den /\ c.num < 75 * c.den)
          /\ b = "acceptable" <=> (c.num >= 45 * c.den /\ c.num < 60 * c.den)
          /\ b = "threshold" <=> (c.num >= 40 * c.den /\ c.num < 45 * c.den)
          /\ b = "rejected" <=> c.num < 40 * c.den
          /\ c.num < 0 => b = "rejected"
          /\ c.num > 100 * c.den => b = "excellent"
          /\ op = "get_confidence_bucket" =>
               /\ result.confidence = c => result.bucket = b
               /\ result.confidence.num * c.den <= c.num * result.confidence.den
                    => BucketRank(result.bucket) <= BucketRank(b)]_vars

\* The confidence 0.40 itself, classified threshold.
C17_Witness ==
  /\ op = "get_confidence_bucket"
  /\ result.confidence = Conf(80, 2)
  /\ result.bucket = "threshold"

\* C18: for every average confidence the template of the prompt is the one
\* of the bucket the cache gives the same value: alegre y seguro for
\* excellent, positivo con ligero humor for good, ligeramente bromista for
\* moderate, bromista/ironico for acceptable, muy ironico y divertido for
\* threshold, muy bromista sobre el RECHAZO for rejected.
ToneOfBucket(bucket) ==
  CASE bucket = "excellent" -> "alegre y seguro"
    [] bucket = "good" -> "positivo con ligero humor"
    [] bucket = "moderate" -> "ligeramente bromista"
    [] bucket = "acceptable" -> "bromista/ironico"
    [] bucket = "threshold" -> "muy ironico y divertido"
    [] bucket = "rejected" -> "muy bromista sobre el RECHAZO"

C18_ToneMatchesBucket ==
  op = "generate_adaptive_prompt" =>
    /\ result.prompt.tone = ToneOfBucket(get_confidence_bucket(result.confidence))
    /\ result.prompt.avg_confidence = result.confidence
    /\ result.prompt.detection_count = buffer_size

\* The prompt for the confidence 0.40 itself, where both tests are inclusive.
C18_Witness ==
  /\ op = "generate_adaptive_prompt"
  /\ result.confidence = Conf(80, 2)
  /\ result.prompt.tone = "muy ironico y divertido"
  /\ get_confidence_bucket(result.confidence) = "threshold"

\* C19: a detection without a confidence key is taken like any other (it is
\* buffered or completes the window) and counts as 0 in the mean of its
\* window: the mean is the sum of the confidences present over N.  A window
\* none of whose detections has a confidence has the mean 0 and is processed
\* as rejected.
C19_MissingConfidenceIsZero ==
  /\ (op = "add_detection" /\ ~IsResult(result)) =>
       /\ buffer /= <<>>
       /\ http.buffer_count = Len(buffer)
  /\ WindowDone =>
       LET ds == result.detections
           present == {i \in DOMAIN ds : "confidence" \in DOMAIN ds[i]}
       IN /\ result.avg_confidence.den = Len(ds)
          /\ result.avg_confidence.num =
               SumSeq([i \in DOMAIN ds |->
                         IF i \in present THEN ds[i].confidence ELSE 0])
          /\ present = {} =>
               /\ result.avg_confidence.num = 0
               /\ result.confidence_bucket = "rejected"
               /\ confidence_distribution["rejected"] >= 1

\* A window of a detection without a confidence and one of confidence 1.0:
\* the mean is 0.5, the bucket acceptable.
C19_Witness ==
  /\ WindowDone
  /\ buffer_size = 2
  /\ "confidence" \notin DOMAIN result.detections[1]
  /\ "confidence" \in DOMAIN result.detections[2]
  /\ result.detections[2].confidence = 100
  /\ result.avg_confidence = Conf(100, 2)
  /\ result.confidence_bucket = "acceptable"

\* C20: a window answered from the cache dispatches nothing: the router
\* (cursor, success and failure counts, fallback count) and the count of
\* generation calls are after the add what they were before it, no backend
\* is invoked, and the text returned is the one the cache held for the
\* bucket, which it still holds.
C20_HitDispatchesNothing ==
  [][(op' = "add_detection" /\ IsResult(result') /\ result'.source = "cache") =>
       /\ llm_router' = llm_router
       /\ ai_calls' = ai_calls
       /\ dispatches' = dispatches
       /\ invoked' = <<>>
       /\ router_ret' = NoneDict
       /\ result'.confidence_bucket \in KeySet(cache)
       /\ result'.response = cache.data[result'.confidence_bucket].response
       /\ cache'.data[result'.confidence_bucket].response = result'.response
       /\ result'.runtime = "cache"]_vars

\* A window answered from the cache with the text the first backend of the
\* rotation generated for the window before it.
C20_Witness ==
  /\ WindowDone
  /\ result.source = "cache"
  /\ result.response = "reply of gemini-2.5-flash"
  /\ llm_router.current_index = 1
  /\ ai_calls = 1
  /\ cached_responses = 1
  /\ dispatches = 1

\* C21: as long as every backend invocation of a fresh service has
\* succeeded and the windows processed fell into k buckets, k no more than
\* the capacity of the cache, the count of generation calls is k and the
\* resident buckets are the k buckets seen.
BucketsSeen == {b \in Buckets : confidence_distribution[b] > 0}

C21_OneCallPerBucket ==
  (/\ \A r \in Runtimes : llm_router.failures_by_runtime[r] = 0
   /\ Cardinality(BucketsSeen) <= cache.capacity) =>
    /\ ai_calls = Cardinality(BucketsSeen)
    /\ KeySet(cache) = BucketsSeen

\* C22: with a cache capacity of at least the number of buckets no add and
\* no clear evicts an entry: a bucket once stored stays resident, the cache
\* never holds more than six entries, and the six buckets can be resident
\* together.
C22_RoomForEveryBucket ==
  [][cache.capacity >= Cardinality(Buckets) =>
       /\ evicted' = None
       /\ KeySet(cache) \subseteq KeySet(cache')
       /\ Len(cache'.keys) <= 6
       /\ KeySet(cache') \subseteq Buckets]_vars

\* The six buckets resident together.
C22_Witness ==
  /\ WindowDone
  /\ cache.capacity = 6
  /\ KeySet(cache) = Buckets
  /\ Len(cache.keys) = 6
  /\ cache.misses = 6

\* C23: with a cache capacity below the number of buckets every add still
\* returns what it should: a buffered status or a complete result whose
\* text is resident under the window's bucket afterwards; the cache stays
\* within its capacity, and an entry leaves only when a window that missed
\* stores a new bucket in a full cache, to be generated again when its
\* bucket comes back.
C23_SmallCacheStillServes ==
  [][(op' = "add_detection" /\ cache.capacity < Cardinality(Buckets)) =>
       /\ Len(cache'.keys) <= cache.capacity
       /\ DOMAIN cache'.data = KeySet(cache')
       /\ IF IsResult(result')
          THEN /\ DOMAIN result' = ResultKeys
               /\ http' = result'
               /\ result'.source \in {"cache", "gemini"}
               /\ result'.confidence_bucket \in KeySet(cache')
               /\ cache'.data[result'.confidence_bucket].response = result'.response
               /\ evicted' /= None =>
                    /\ result'.source = "gemini"
                    /\ Len(cache.keys) = cache.capacity
                    /\ evicted' \in KeySet(cache)
                    /\ evicted' \notin KeySet(cache')
               /\ (result'.source = "gemini"
                   /\ result'.confidence_bucket \notin KeySet(cache)
                   /\ Len(cache.keys) = cache.capacity) => evicted' /= None
          ELSE /\ http'.status = "buffered"
               /\ cache' = cache
               /\ evicted' = None]_vars

\* A cache of capacity 1: the third window falls into the bucket of the
\* first, which the second window evicted, and is generated again, evicting
\* in its turn; no window was a hit.
C23_Witness ==
  /\ WindowDone
  /\ cache.capacity = 1
  /\ evicted /= None
  /\ result.source = "gemini"
  /\ confidence_distribution[result.confidence_bucket] = 2
  /\ cache.misses = 3
  /\ cache.hits = 0
  /\ ai_calls = 3

\* C24: no operation lowers a counter: the success and failure counts of
\* each backend, the fallback count, the distribution count of each bucket,
\* the hits, misses and requests of the cache, the detections counted, the
\* generation calls and the cached responses of the service are each at
\* least what they were before the step.
C24_CountersNeverDecrease ==
  [][/\ \A r \in Runtimes :
          /\ llm_router'.calls_by_runtime[r] >= llm_router.calls_by_runtime[r]
          /\ llm_router'.failures_by_runtime[r] >= llm_router.failures_by_runtime[r]
     /\ llm_router'.fallbacks_to_ollama >= llm_router.fallbacks_to_ollama
     /\ \A b \in Buckets : confidence_distribution'[b] >= confidence_distribution[b]
     /\ cache'.hits >= cache.hits
     /\ cache'.misses >= cache.misses
     /\ cache'.total_requests >= cache.total_requests
     /\ total_detections' >= total_detections
     /\ ai_calls' >= ai_calls
     /\ cached_responses' >= cached_responses]_vars

\* A clear after three windows of one detection, a hit, a fallback and a
\* generation call among them.
C24_Witness ==
  /\ op = "clear_buffer"
  /\ total_detections = 3
  /\ cache.hits >= 1
  /\ cached_responses >= 1
  /\ ai_calls >= 1
  /\ llm_router.fallbacks_to_ollama >= 1
  /\ confidence_distribution["threshold"] >= 1

\* C25: a stats call of the service, of the cache or of the router leaves
\* the buffer, the cache (entries, order, hit counts, counters), the router
\* (cursor, counters) and the counters of the service as they were, and
\* dispatches nothing; the snapshot of the service shows the state it was
\* taken in.
C25_StatsReadOnly ==
  [][op' \in {"get_stats", "cache.get_stats", "router.get_stats"} =>
       /\ UNCHANGED <<buffer_size, buffer, cache, llm_router, total_detections,
                      ai_calls, cached_responses, confidence_distribution,
                      latencies, dispatches>>
       /\ op' = "get_stats" =>
            /\ result'.buffer.current_detections = Len(buffer)
            /\ result'.buffer.total_detections_processed = total_detections
            /\ result'.ai.total_calls = ai_calls
            /\ result'.cache.buckets = cache.keys
            /\ result'.cache.hits = cache.hits
            /\ result'.llm_router.current_rotation_index = llm_router.current_index
            /\ result'.confidence_distribution = confidence_distribution]_vars

\* A snapshot taken with a detection buffered, an entry in the cache and the
\* router past its first backend.
C25_Witness ==
  /\ op = "get_stats"
  /\ result.buffer.current_detections = 1
  /\ buffer /= <<>>
  /\ result.cache.current_size = 1
  /\ result.llm_router.current_rotation_index = 1
  /\ llm_router.current_index = 1

\* C26: the snapshot of the router names as next_runtime the backend at the
\* reported cursor, and a dispatch that follows the snapshot invokes that
\* backend as its primary; in any state the primary of the next dispatch is
\* the backend at the cursor.
C26_NextIsNextPrimary ==
  [][/\ op' = "router.get_stats" =>
          /\ result'.current_rotation_index = llm_router.current_index
          /\ result'.next_runtime = RotationOrder[result'.current_rotation_index + 1]
     /\ (op = "router.get_stats" /\ op' = "call_with_round_robin") =>
          invoked'[1].runtime = result.next_runtime
     /\ op' = "call_with_round_robin" =>
          invoked'[1].runtime = RotationOrder[llm_router.current_index + 1]]_vars

\* A snapshot taken after the cursor has wrapped around: dart is next.
C26_Witness ==
  /\ op = "router.get_stats"
  /\ dispatches = 6
  /\ result.current_rotation_index = 1
  /\ result.next_runtime = "dart"

\* A backend call of the running handler is in flight.
InFlight == At("calling") \/ At("calling_fallback")

\* C27: once the cache lookup of a full window has been made, and while its
\* dispatch runs, the buffer is already empty: the events were taken out
\* before the processing began.
C27_EmptiedBeforeProcessing ==
  (At("looked") \/ At("cursor_read") \/ InFlight) => buffer = <<>>

C29_AddNotBlockedByCall ==
  (InFlight /\ pending > 0 /\ total_detections < MaxLoopDetections)
    => ENABLED (\E d \in Detections(total_detections + 1) : LoopAppend(d))

\* C30: an add that fills the buffer leads to the return of a result, the
\* backend calls ending with a text or a failure.
C30_FullWindowReturns ==
  (At("appended") /\ Len(buffer) >= buffer_size)
    ~> (~Running /\ op = "add_detection" /\ IsResult(result))

\* A window returned after both the primary and the fallback failed.
C30_Witness ==
  /\ ~Running
  /\ op = "add_detection"
  /\ IsResult(result)
  /\ Len(invoked) = 2
  /\ ~invoked[2].success
  /\ result.runtime = "none"

\* C31: the service's count of cached responses equals the cache's count of
\* hits, whatever texts the backends returned.
C31_CachedResponsesAreHits ==
  cached_responses = cache.hits

\* The last window processed missed the cache and its dispatch failed
\* altogether.
LastWindowFailed ==
  /\ last_window /= NoneDict
  /\ last_window.result.source = "gemini"
  /\ last_window.result.runtime = "none"

\* C32: a window that misses the cache leaves the text it returns resident
\* under its bucket, whether the dispatch succeeded or not; after a window
\* whose dispatch failed altogether the failure text is resident, and the
\* next window of the same bucket returns that text from the cache and
\* dispatches nothing.
C32_FailureTextIsCached ==
  [][/\ (op' = "add_detection" /\ IsResult(result') /\ result'.source = "gemini") =>
          /\ result'.confidence_bucket \in KeySet(cache')
          /\ cache'.data[result'.confidence_bucket].response = result'.response
          /\ result'.runtime = "none" => result'.response = FailureText
     /\ (/\ LastWindowFailed
         /\ op' = "add_detection"
         /\ IsResult(result')
         /\ result'.confidence_bucket = last_window.result.confidence_bucket) =>
          /\ result'.source = "cache"
          /\ result'.response = FailureText
          /\ dispatches' = dispatches
          /\ invoked' = <<>>
          /\ llm_router' = llm_router]_vars

\* The window after a failed one, of the same bucket, answered with the
\* failure text from the cache; the failed window took two events.
C32_Witness ==
  /\ WindowDone
  /\ result.source = "cache"
  /\ result.response = FailureText
  /\ result.detection_count = 2
  /\ dispatches = 1
  /\ ai_calls = 0
  /\ cache.hits = 1

\* C33: the dict a dispatch returns has used_fallback true exactly when the
\* dispatch invoked the fallback backend as its second step.
C33_UsedFallbackIffInvoked ==
  Dispatched => (router_ret.used_fallback <=> Len(invoked) = 2)

\* The failures counted for the backends other than the fallback backend.
FailuresOfOthers(self) ==
  SumSeq([i \in DOMAIN self.rotation |->
            IF self.rotation[i] = FallbackRuntime THEN 0
            ELSE self.failures_by_runtime[self.rotation[i]]])

\* The failed invocations of the fallback backend among those of a dispatch.
FailedFallbackBackend(calls) ==
  Cardinality({i \in DOMAIN calls :
                 calls[i].runtime = FallbackRuntime /\ ~calls[i].success})

\* C34: the count of fallbacks equals the failures counted for the backends
\* other than the fallback backend, before and after every step, and a
\* dispatch raises the failure count of the fallback backend by its failed
\* invocations in that dispatch, as primary or as fallback.
C34_FallbacksAreOtherFailures ==
  [][/\ llm_router.fallbacks_to_ollama = FailuresOfOthers(llm_router)
     /\ llm_router'.fallbacks_to_ollama = FailuresOfOthers(llm_router')
     /\ op' = "call_with_round_robin" =>
          llm_router'.failures_by_runtime[FallbackRuntime]
            = llm_router.failures_by_runtime[FallbackRuntime]
              + FailedFallbackBackend(invoked')]_vars

\* The fallback backend has failed once as primary and once as fallback,
\* and two fallbacks were counted for two failures of other backends.
C34_Witness ==
  /\ Dispatched
  /\ llm_router.failures_by_runtime[FallbackRuntime] = 2
  /\ llm_router.fallbacks_to_ollama = 2
  /\ llm_router.failures_by_runtime["dart"] = 1
  /\ llm_router.failures_by_runtime["gemini-1.5-pro"] = 1
  /\ llm_router.calls_by_runtime["ollama"] = 1

\* The successes the router has counted, over all its backends.
Successes(self) ==
  SumSeq([i \in DOMAIN self.rotation |-> self.calls_by_runtime[self.rotation[i]]])

\* C35: the service's count of generation calls equals the successes the
\* router has counted, before and after every step; a step adds at most one
\* success, and a window whose dispatch failed altogether adds none to
\* either count.
C35_CallsAreSuccesses ==
  [][/\ ai_calls = Successes(llm_router)
     /\ ai_calls' = Successes(llm_router')
     /\ ai_calls' - ai_calls \in {0, 1}
     /\ (op' = "add_detection" /\ IsResult(result') /\ result'.runtime = "none") =>
          /\ ai_calls' = ai_calls
          /\ Successes(llm_router') = Successes(llm_router)
          /\ dispatches' = dispatches + 1]_vars

\* Three dispatches made: one succeeded on its primary, one on the fallback,
\* and the last failed altogether.
C35_Witness ==
  /\ WindowDone
  /\ result.runtime = "none"
  /\ dispatches = 3
  /\ ai_calls = 2
  /\ llm_router.calls_by_runtime["ollama"] = 1
  /\ llm_router.calls_by_runtime["gemini-2.5-flash"] = 1

\* The windows counted in the distribution, over the six buckets.
Distributed ==
  confidence_distribution["excellent"] + confidence_distribution["good"]
  + confidence_distribution["moderate"] + confidence_distribution["acceptable"]
  + confidence_distribution["threshold"] + confidence_distribution["rejected"]

\* C36: the hits and the misses of the cache add up to its get requests,
\* which are as many as the windows counted in the distribution; an add that
\* completes a window raises both by one and any other call leaves both as
\* they are, so both equal the number of completed windows.
C36_RequestsAreWindows ==
  [][/\ cache.hits + cache.misses = cache.total_requests
     /\ cache'.hits + cache'.misses = cache'.total_requests
     /\ cache.total_requests = Distributed
     /\ cache'.total_requests = Distributed'
     /\ cache'.total_requests - cache.total_requests =
          IF op' = "add_detection" /\ IsResult(result') THEN 1 ELSE 0]_vars

\* Three windows completed, in two buckets: one hit and two misses.
C36_Witness ==
  /\ WindowDone
  /\ cache.total_requests = 3
  /\ cache.hits = 1
  /\ cache.misses = 2
  /\ confidence_distribution["excellent"] = 2
  /\ confidence_distribution["rejected"] = 1
  /\ cached_responses = 1

\* The events the service has accounted for as processed or buffered: N for
\* every completed window and the fill count.
ProcessedOrBuffered == buffer_size * cache.total_requests + Len(buffer)

\* C37: an add that does not complete a window appends its event to the
\* buffer; an add that completes one returns the buffered events followed by
\* its own, N in all and in arrival order, every one of them added after the
\* events of the window before, and leaves the buffer empty; a clear takes
\* the buffered events away and returns their number.  Every add raises the
\* count of events and the events processed or buffered by one, a clear
\* lowers the latter by the number it discarded: the count of events is N
\* times the completed windows plus the fill count plus the events discarded.
C37_NoEventLostOrDuplicated ==
  [][/\ total_detections >= ProcessedOrBuffered
     /\ op' = "add_detection" =>
          /\ total_detections' = total_detections + 1
          /\ ProcessedOrBuffered' = ProcessedOrBuffered + 1
          /\ IF IsResult(result')
             THEN /\ Len(result'.detections) = buffer_size
                  /\ SubSeq(result'.detections, 1, Len(buffer)) = buffer
                  /\ result'.detections[buffer_size].payload = total_detections'
                  /\ \A i \in 1..(buffer_size - 1) :
                       result'.detections[i].payload < result'.detections[i + 1].payload
                  /\ last_window /= NoneDict =>
                       last_window.result.detections[buffer_size].payload
                         < result'.detections[1].payload
                  /\ buffer' = <<>>
             ELSE /\ Len(buffer') = Len(buffer) + 1
                  /\ SubSeq(buffer', 1, Len(buffer)) = buffer
                  /\ buffer'[Len(buffer')].payload = total_detections'
     /\ op' = "clear_buffer" =>
          /\ total_detections' = total_detections
          /\ result'.cleared_count = Len(buffer)
          /\ ProcessedOrBuffered' = ProcessedOrBuffered - result'.cleared_count
          /\ buffer' = <<>>
     /\ op' = "get_stats" =>
          /\ total_detections' = total_detections
          /\ ProcessedOrBuffered' = ProcessedOrBuffered
          /\ buffer' = buffer]_vars

\* A window of two made of the second and the third event: the first was
\* discarded by a clear.
C37_Witness ==
  /\ WindowDone
  /\ buffer_size = 2
  /\ result.detections[1].payload = 2
  /\ result.detections[2].payload = 3
  /\ total_detections = 3
  /\ cache.total_requests = 1
  /\ buffer = <<>>

====
